---------------------------- MODULE Spec2Model ----------------------------
(***************************************************************************)
(* The single-hidden-layer autoencoder of go-autoencoder:                  *)
(*   internal/mathutils   Sigmoid, SigmoidDeriv, SigmoidMatrix, MatMul,    *)
(*                        AddBias, RandomMatrix                            *)
(*   internal/autoencoder NewAutoencoder, Encode, Decode, Forward,         *)
(*                        TrainStep and its phases, Save, Load             *)
(*                                                                         *)
(* float64 values are fixed-point integers, One standing for 1.0.  Slices  *)
(* are functions on 0..n-1, as the code indexes them.  A `x += v` on a     *)
(* slice element that several goroutines may reach is a load followed by   *)
(* a store, two steps of the goroutine, so that the interleavings the Go   *)
(* scheduler can produce are the behaviours of the model.                  *)
(***************************************************************************)
EXTENDS Integers, Sequences, FiniteSets, TLC

\* ------------------------------------------------------------- bounds
\* runtime.NumCPU() is drawn from 1..MaxWorkers
MaxWorkers == 2
\* a batch holds 1..MaxBatch samples
MaxBatch == 2
\* TrainStep calls in one run
MaxSteps == 1
\* NewAutoencoder calls in one run (main builds ae, then ae2)
MaxModels == 2

\* ------------------------------------------------------------ float64
\* the float64 1.0, in fixed point (two decimals)
One == 100

\* a float64 product, rounded to the nearest representable value
Mul(a, b) == (a * b + One \div 2) \div One

\* e^n for n = -6..6, in fixed point
ExpTab == <<0, 1, 2, 5, 14, 37, 100, 272, 739, 2009, 5460, 14841, 40343>>

\* math.Exp: exact at the integers, interpolated between them, flat outside -6..6
Exp(x) ==
    LET n == x \div One
        f == x % One
    IN  IF n < -6 THEN ExpTab[1]
        ELSE IF n >= 6 THEN ExpTab[13]
        ELSE ExpTab[n + 7] + ((ExpTab[n + 8] - ExpTab[n + 7]) * f) \div One

Sigmoid(x) ==
    LET d == One + Exp(-x)
    IN  (One * One + d \div 2) \div d

SigmoidDeriv(x) ==
    LET s == Sigmoid(x)
    IN  Mul(s, One - s)

\* ------------------------------------------------------------- slices
\* Go's len of a slice held as a function on 0..n-1
len(s) == Cardinality(DOMAIN s)

\* make([]float64, n)
MakeVec(n) == [j \in 0..(n - 1) |-> 0]

\* make([][]float64, r) with every row make([]float64, c)
MakeMat(r, c) == [i \in 0..(r - 1) |-> MakeVec(c)]

\* sum := 0.0; for k := 0; k < n; k++ { sum += f[k] }
RECURSIVE SumTo(_, _)
SumTo(f, n) == IF n = 0 THEN 0 ELSE SumTo(f, n - 1) + f[n - 1]

SigmoidMatrix(m) == [i \in DOMAIN m |-> [j \in DOMAIN m[i] |-> Sigmoid(m[i][j])]]

\* MatMul indexes a[0], b[0], a[i][k] for k < len(a[0]) and b[k][j] for
\* j < len(b[0]) without a check: an index out of range panics
MatMulPanics(a, b) ==
    \/ len(a) = 0
    \/ len(b) = 0
    \/ /\ len(a) > 0
       /\ len(b) > 0
       /\ len(b[0]) > 0
       /\ \/ \E i \in DOMAIN a : len(a[i]) < len(a[0])
          \/ len(a[0]) > len(b)
          \/ \E k \in DOMAIN b : k < len(a[0]) /\ len(b[k]) < len(b[0])

MatMul(a, b) ==
    LET colsA == len(a[0])
        colsB == len(b[0])
    IN  [i \in DOMAIN a |->
            [j \in 0..(colsB - 1) |->
                SumTo([k \in 0..(colsA - 1) |-> Mul(a[i][k], b[k][j])], colsA)]]

\* AddBias reads b[j] for every j < len(x[i])
AddBiasPanics(x, b) == \E i \in DOMAIN x : len(x[i]) > len(b)

AddBias(x, b) == [i \in DOMAIN x |-> [j \in DOMAIN x[i] |-> x[i][j] + b[j]]]

\* m[i][j] is in range
InRange(m, i, j) == i \in DOMAIN m /\ j \in DOMAIN m[i]

\* ------------------------------------------------------------- inputs
\* NewAutoencoder's (inputSize, latentSize) arguments
Shapes == {<<2, 1>>, <<1, 1>>}

\* the state of math/rand when RandomMatrix is called
Seeds == {0}

\* TrainStep's lr argument
Rates == {One \div 2}

\* the values rand.NormFloat64() * scale is drawn from
InitWeights == <<-(One \div 2), One, One \div 2, -One, 2 * One>>

\* a sample of n binary features (0,1,0,1,... as in main, or all ones), or a
\* malformed sample one feature short or one feature long
Samples(n) ==
    {[j \in 0..(n - 1) |-> (j % 2) * One], [j \in 0..(n - 1) |-> One],
     [j \in 0..(n - 2) |-> One], [j \in 0..n |-> One]}

Batches(n) == UNION {[0..(B - 1) -> Samples(n)] : B \in 1..MaxBatch}

Nil == "nil"

\* ------------------------------------------------------------- state
VARIABLES
    numWorkers,   \* runtime.NumCPU()
    variant,      \* which file of the package is built: "shared" (autoencoder.go)
                  \* or "local" (the variant with localDW/localDB)
    inputSize, latentSize, W1, b1, W2, b2,   \* the Autoencoder
    file,         \* the weights file on disk
    pc,           \* where the main goroutine is
    ts,           \* TrainStep's locals
    wk,           \* the goroutines of the running phase
    ret,          \* what the last call of main returned
    steps,        \* TrainStep calls so far
    models,       \* NewAutoencoder calls so far
    writers,      \* history: the goroutines that stored to each shared cell in the running phase
    pre,          \* history: the parameters when updateWeights was entered
    saved         \* history: the model whose Save wrote the file

vars == <<numWorkers, variant, inputSize, latentSize, W1, b1, W2, b2, file, pc, ts, wk,
          ret, steps, models, writers, pre, saved>>

model == <<inputSize, latentSize, W1, b1, W2, b2>>
params == <<W1, b1, W2, b2>>
hist == <<writers, pre, saved>>
env == <<numWorkers, variant>>

\* ---------------------------------------------------- NewAutoencoder
RandomMatrix(rows, cols, seed) ==
    [i \in 0..(rows - 1) |->
        [j \in 0..(cols - 1) |-> InitWeights[((seed + 2 * i + 3 * j) % 5) + 1]]]

NoFile == [exists |-> FALSE]
NoCall == [op |-> "none"]
NoStep == [x |-> Nil]

Construct(shape, seed) ==
    /\ inputSize' = shape[1]
    /\ latentSize' = shape[2]
    /\ W1' = RandomMatrix(shape[1], shape[2], seed)
    /\ b1' = MakeVec(shape[2])
    /\ W2' = RandomMatrix(shape[2], shape[1], seed + 1)
    /\ b2' = MakeVec(shape[1])

Init ==
    /\ numWorkers \in 1..MaxWorkers
    /\ variant \in {"shared", "local"}
    /\ \E shape \in Shapes, seed \in Seeds :
        /\ inputSize = shape[1]
        /\ latentSize = shape[2]
        /\ W1 = RandomMatrix(shape[1], shape[2], seed)
        /\ b1 = MakeVec(shape[2])
        /\ W2 = RandomMatrix(shape[2], shape[1], seed + 1)
        /\ b2 = MakeVec(shape[1])
    /\ file = NoFile
    /\ pc = "idle"
    /\ ts = NoStep
    /\ wk = <<>>
    /\ ret = NoCall
    /\ steps = 0
    /\ models = 1
    /\ writers = <<>>
    /\ pre = Nil
    /\ saved = Nil

\* main builds a second model (ae2) while the file of the first is on disk
NewAutoencoder ==
    /\ pc = "idle"
    /\ models < MaxModels
    /\ \E shape \in Shapes, seed \in Seeds : Construct(shape, seed)
    /\ models' = models + 1
    /\ UNCHANGED <<env, file, pc, ts, wk, ret, steps, hist>>

\* ------------------------------------------- Forward, Encode, Decode
ForwardPanics(x) ==
    \/ MatMulPanics(x, W1)
    \/ AddBiasPanics(MatMul(x, W1), b1)
    \/ LET a1 == SigmoidMatrix(AddBias(MatMul(x, W1), b1))
       IN  \/ MatMulPanics(a1, W2)
           \/ AddBiasPanics(MatMul(a1, W2), b2)

Forward(x) ==
    LET z1 == AddBias(MatMul(x, W1), b1)
        a1 == SigmoidMatrix(z1)
        z2 == AddBias(MatMul(a1, W2), b2)
        out == SigmoidMatrix(z2)
    IN  [a1 |-> a1, out |-> out, z1 |-> z1, z2 |-> z2]

Encode(x) ==
    LET z1 == MatMul(x, W1)
        a1 == SigmoidMatrix(z1)
    IN  a1

\* mutant: Decode multiplies by the encoder's weights
DecodeByW1(latent) ==
    LET z2 == MatMul(latent, W1)
        out == SigmoidMatrix(z2)
    IN  out

Decode(latent) ==
    LET z2 == MatMul(latent, W2)
        out == SigmoidMatrix(z2)
    IN  out

\* a call of main that returns val, or panics and ends the process
Call(op, arg, panics, val) ==
    /\ pc = "idle"
    /\ pc' = IF panics THEN "panic" ELSE "called"
    /\ ret' = [op |-> op, arg |-> arg, panic |-> panics, val |-> IF panics THEN Nil ELSE val]
    /\ UNCHANGED <<env, model, file, ts, wk, steps, models, hist>>

\* main uses what the call returned (it prints it) and goes on
Resume ==
    /\ pc = "called"
    /\ pc' = "idle"
    /\ ret' = NoCall
    /\ UNCHANGED <<env, model, file, ts, wk, steps, models, hist>>

ForwardCall ==
    /\ pc = "idle"
    /\ \E x \in Batches(inputSize) : Call("Forward", x, ForwardPanics(x), Forward(x))

EncodeCall ==
    /\ pc = "idle"
    /\ \E x \in Batches(inputSize) : Call("Encode", x, MatMulPanics(x, W1), Encode(x))

\* the latent matrices main decodes: the codes Forward and Encode give for a batch
Latents ==
    {Encode(x) : x \in {y \in Batches(inputSize) : ~MatMulPanics(y, W1)}}
        \cup {Forward(x).a1 : x \in {y \in Batches(inputSize) : ~ForwardPanics(y)}}

DecodeCall ==
    /\ pc = "idle"
    /\ \E l \in Latents : Call("Decode", l, MatMulPanics(l, W2), Decode(l))

\* ---------------------------------------------------------- TrainStep
\* a goroutine of a phase: p of its n stores are done; loaded says that it has
\* read the cell of store p into reg and not yet written it back
Goroutine(n) == [p |-> 0, n |-> n, loaded |-> FALSE, reg |-> 0]

\* defer wg.Done() has run in goroutine g
Done(g) == wk[g].p = wk[g].n

\* mutant: the function returns without wg.Wait()
NoWait == TRUE

\* wg.Wait() returns
WaitReturns == \A g \in DOMAIN wk : Done(g)

\* history: goroutine g stored to cell c
Wrote(c, g) ==
    IF c \in DOMAIN writers
    THEN [writers EXCEPT ![c] = @ \cup {g}]
    ELSE writers @@ (c :> {g})

TrainStep ==
    /\ pc = "idle"
    /\ steps < MaxSteps
    /\ \E x \in Batches(inputSize), lr \in Rates :
        ts' = [x |-> x, lr |-> lr, a1 |-> Nil, out |-> Nil, z1 |-> Nil, z2 |-> Nil,
               dOut |-> Nil, mse |-> 0, dW2 |-> Nil, db2 |-> Nil, dA1 |-> Nil,
               dW1 |-> Nil, db1 |-> Nil]
    /\ pc' = "Forward"
    /\ steps' = steps + 1
    /\ UNCHANGED <<env, model, file, wk, ret, models, hist>>

\* mutant: the bias is added in place with its operands the wrong way round,
\* b[j] += x[i][j], so the forward pass rewrites b1
TSForwardInPlace ==
    /\ pc = "Forward"
    /\ IF ForwardPanics(ts.x)
       THEN /\ pc' = "panic"
            /\ ts' = ts
            /\ b1' = b1
       ELSE /\ pc' = "computeOutputGradient"
            /\ LET f == Forward(ts.x)
               IN  /\ ts' = [ts EXCEPT !.a1 = f.a1, !.out = f.out, !.z1 = f.z1, !.z2 = f.z2]
                   /\ b1' = [j \in DOMAIN b1 |-> f.z1[0][j]]
    /\ UNCHANGED <<env, inputSize, latentSize, W1, W2, b2, file, wk, ret, steps, models, hist>>

\* a1, out, z1, z2 := ae.Forward(x)
TSForward ==
    /\ pc = "Forward"
    /\ IF ForwardPanics(ts.x)
       THEN /\ pc' = "panic"
            /\ ts' = ts
       ELSE /\ pc' = "computeOutputGradient"
            /\ LET f == Forward(ts.x)
               IN  ts' = [ts EXCEPT !.a1 = f.a1, !.out = f.out, !.z1 = f.z1, !.z2 = f.z2]
    /\ UNCHANGED <<env, model, file, wk, ret, steps, models, hist>>

\* computeOutputGradient reads x[i][j] and z2[i][j] for every j < len(out[i])
OutputGradientPanics(out, x, z2) ==
    \E i \in DOMAIN out : len(x[i]) < len(out[i]) \/ len(z2[i]) < len(out[i])

computeOutputGradient(out, x, z2) ==
    LET diff(i, j) == out[i][j] - x[i][j]
        sq == [i \in DOMAIN out |->
                  SumTo([j \in DOMAIN out[i] |-> Mul(diff(i, j), diff(i, j))], len(out[i]))]
    IN  [dOut |-> [i \in DOMAIN out |->
                      [j \in DOMAIN out[i] |-> Mul(2 * diff(i, j), SigmoidDeriv(z2[i][j]))]],
         mse |-> SumTo(sq, len(out)) \div len(out[0])]

TSOutputGradient ==
    /\ pc = "computeOutputGradient"
    /\ IF OutputGradientPanics(ts.out, ts.x, ts.z2)
       THEN /\ pc' = "panic"
            /\ ts' = ts
       ELSE /\ pc' = "computeGradientsW2"
            /\ LET g == computeOutputGradient(ts.out, ts.x, ts.z2)
               IN  ts' = [ts EXCEPT !.dOut = g.dOut, !.mse = g.mse]
    /\ UNCHANGED <<env, model, file, wk, ret, steps, models, hist>>

\* ------------------------------------------------- computeGradientsW2
\* worker w's rows: start := w * len(a1) / numWorkers, end := (w+1) * len(a1) / numWorkers
W2Start(w) == (w * len(ts.a1)) \div numWorkers
W2End(w) == ((w + 1) * len(ts.a1)) \div numWorkers

\* the p-th `+=` of worker w: per row i and column j, db2[j] += dOut[i][j], then
\* dW2[k][j] += a1[i][k] * dOut[i][j] for every k
W2Op(w, p) ==
    LET perRow == inputSize * (1 + latentSize)
        i == W2Start(w) + p \div perRow
        j == (p % perRow) \div (1 + latentSize)
        q == (p % perRow) % (1 + latentSize)
    IN  IF ~InRange(ts.dOut, i, j) \/ (q > 0 /\ ~InRange(ts.a1, i, q - 1))
        THEN [panics |-> TRUE]
        ELSE IF q = 0
        THEN [panics |-> FALSE, cell |-> <<"db2", 0, j>>, add |-> ts.dOut[i][j]]
        ELSE [panics |-> FALSE, cell |-> <<"dW2", q - 1, j>>,
              add |-> Mul(ts.a1[i][q - 1], ts.dOut[i][j])]

W2Dispatch ==
    /\ pc = "computeGradientsW2"
    /\ variant = "shared"
    /\ ts' = [ts EXCEPT !.dW2 = MakeMat(latentSize, inputSize), !.db2 = MakeVec(inputSize)]
    /\ wk' = [w \in 0..(numWorkers - 1) |->
                 Goroutine((W2End(w) - W2Start(w)) * inputSize * (1 + latentSize))]
    /\ writers' = <<>>
    /\ pc' = "waitW2"
    /\ UNCHANGED <<env, model, file, ret, steps, models, pre, saved>>

\* the gradient slices of TrainStep, read and written by cell
GradGet(c) ==
    CASE c[1] = "db2" -> ts.db2[c[3]]
      [] c[1] = "dW2" -> ts.dW2[c[2]][c[3]]
      [] c[1] = "db1" -> ts.db1[c[3]]
      [] c[1] = "dW1" -> ts.dW1[c[2]][c[3]]

GradSet(c, v) ==
    CASE c[1] = "db2" -> [ts EXCEPT !.db2[c[3]] = v]
      [] c[1] = "dW2" -> [ts EXCEPT !.dW2[c[2]][c[3]] = v]
      [] c[1] = "db1" -> [ts EXCEPT !.db1[c[3]] = v]
      [] c[1] = "dW1" -> [ts EXCEPT !.dW1[c[2]][c[3]] = v]

\* worker w evaluates the right-hand side of its next `+=`, where an index out
\* of range ends the process, and reads the cell
GradLoad(w, op) ==
    /\ ~Done(w)
    /\ ~wk[w].loaded
    /\ IF op.panics
       THEN /\ pc' = "panic"
            /\ wk' = wk
       ELSE /\ pc' = pc
            /\ wk' = [wk EXCEPT ![w].loaded = TRUE, ![w].reg = GradGet(op.cell)]
    /\ UNCHANGED <<env, model, file, ts, ret, steps, models, hist>>

\* worker w writes the sum back
GradStore(w, op) ==
    /\ wk[w].loaded
    /\ ts' = GradSet(op.cell, wk[w].reg + op.add)
    /\ wk' = [wk EXCEPT ![w].loaded = FALSE, ![w].reg = 0, ![w].p = @ + 1]
    /\ writers' = Wrote(op.cell, w)
    /\ UNCHANGED <<env, model, file, pc, ret, steps, models, pre, saved>>

W2Load == \E w \in DOMAIN wk : pc = "waitW2" /\ GradLoad(w, W2Op(w, wk[w].p))

W2Store == \E w \in DOMAIN wk : pc = "waitW2" /\ GradStore(w, W2Op(w, wk[w].p))

\* mutant: the decoder is updated as soon as its gradients are known, before
\* backpropHidden reads W2
W2ReturnFused ==
    /\ pc = "waitW2"
    /\ WaitReturns
    /\ pc' = "backpropHidden"
    /\ wk' = <<>>
    /\ W2' = [k \in DOMAIN W2 |-> [j \in DOMAIN W2[k] |->
                 W2[k][j] - Mul(ts.lr, ts.dW2[k][j])]]
    /\ b2' = [j \in DOMAIN b2 |-> b2[j] - Mul(ts.lr, ts.db2[j])]
    /\ UNCHANGED <<env, inputSize, latentSize, W1, b1, file, ts, ret, steps, models, hist>>

\* wg.Wait(); return dW2, db2
W2Return ==
    /\ pc = "waitW2"
    /\ WaitReturns
    /\ pc' = "backpropHidden"
    /\ wk' = <<>>
    /\ UNCHANGED <<env, model, file, ts, ret, steps, models, hist>>

\* the variant that loops over the batch in the calling goroutine
W2SequentialPanics ==
    \E i \in DOMAIN ts.a1 :
        \/ \E j \in 0..(inputSize - 1) : ~InRange(ts.dOut, i, j)
        \/ \E k \in 0..(latentSize - 1) : ~InRange(ts.a1, i, k)

W2Sequential ==
    /\ pc = "computeGradientsW2"
    /\ variant = "local"
    /\ IF W2SequentialPanics
       THEN /\ pc' = "panic"
            /\ ts' = ts
       ELSE /\ pc' = "backpropHidden"
            /\ ts' = [ts EXCEPT
                !.db2 = [j \in 0..(inputSize - 1) |->
                            SumTo([i \in DOMAIN ts.a1 |-> ts.dOut[i][j]], len(ts.a1))],
                !.dW2 = [k \in 0..(latentSize - 1) |-> [j \in 0..(inputSize - 1) |->
                            SumTo([i \in DOMAIN ts.a1 |-> Mul(ts.a1[i][k], ts.dOut[i][j])],
                                  len(ts.a1))]]]
    /\ UNCHANGED <<env, model, file, wk, ret, steps, models, hist>>

\* ----------------------------------------------------- backpropHidden
\* goroutine i of backpropHidden reads dOut[i][k], W2[j][k] and z1[i][j] and writes
\* dA1[i][j]: its index is the goroutine's number, not a batch row it was assigned
BackpropPanics(i) ==
    \E j \in 0..(latentSize - 1) :
        \/ \E k \in 0..(inputSize - 1) : ~InRange(ts.dOut, i, k) \/ ~InRange(W2, j, k)
        \/ ~InRange(ts.z1, i, j)
        \/ ~InRange(ts.dA1, i, j)

BackpropRow(i) ==
    [j \in 0..(latentSize - 1) |->
        Mul(SumTo([k \in 0..(inputSize - 1) |-> Mul(ts.dOut[i][k], W2[j][k])], inputSize),
            SigmoidDeriv(ts.z1[i][j]))]

BPDispatch ==
    /\ pc = "backpropHidden"
    /\ ts' = [ts EXCEPT !.dA1 = MakeMat(len(ts.dOut), latentSize)]
    /\ wk' = [i \in 0..(numWorkers - 1) |-> Goroutine(1)]
    /\ writers' = <<>>
    /\ pc' = "waitBP"
    /\ UNCHANGED <<env, model, file, ret, steps, models, pre, saved>>

\* goroutine i runs its loops: a row of dA1, or an index out of range, which ends
\* the process
BPWorker ==
    \E i \in DOMAIN wk :
        /\ pc = "waitBP"
        /\ ~Done(i)
        /\ IF BackpropPanics(i)
           THEN /\ pc' = "panic"
                /\ UNCHANGED <<ts, wk, writers>>
           ELSE /\ ts' = [ts EXCEPT !.dA1[i] = BackpropRow(i)]
                /\ wk' = [wk EXCEPT ![i].p = 1]
                /\ writers' = Wrote(<<"dA1", i, 0>>, i)
                /\ pc' = pc
        /\ UNCHANGED <<env, model, file, ret, steps, models, pre, saved>>

\* wg.Wait(); return dA1
BPReturn ==
    /\ pc = "waitBP"
    /\ WaitReturns
    /\ pc' = "computeGradientsW1"
    /\ wk' = <<>>
    /\ UNCHANGED <<env, model, file, ts, ret, steps, models, hist>>

\* ------------------------------------------------- computeGradientsW1
\* "shared": start := w * len(x) / numWorkers, end := (w+1) * len(x) / numWorkers
\* "local":  chunkSize := (len(x) + numWorkers - 1) / numWorkers, start := w * chunkSize,
\*           end := start + chunkSize, cut to len(x)
chunkSize == (len(ts.x) + numWorkers - 1) \div numWorkers

W1Start(w) ==
    IF variant = "shared" THEN (w * len(ts.x)) \div numWorkers ELSE w * chunkSize

W1End(w) ==
    IF variant = "shared" THEN ((w + 1) * len(ts.x)) \div numWorkers
    ELSE IF W1Start(w) + chunkSize > len(ts.x) THEN len(ts.x) ELSE W1Start(w) + chunkSize

\* sum over the rows start..end-1 (none when start >= end)
RECURSIVE SumRows(_, _, _)
SumRows(f, start, end) ==
    IF start >= end THEN 0 ELSE f[start] + SumRows(f, start + 1, end)

\* worker w's private accumulators after its loop over its rows
localDW(w, k, j) ==
    SumRows([i \in DOMAIN ts.x |-> Mul(ts.x[i][k], ts.dA1[i][j])], W1Start(w), W1End(w))

localDB(w, j) == SumRows([i \in DOMAIN ts.x |-> ts.dA1[i][j]], W1Start(w), W1End(w))

\* "shared": the p-th `+=` of worker w: per row i and column j, db1[j] += dA1[i][j],
\*           then dW1[k][j] += x[i][k] * dA1[i][j] for every k
\* "local":  the p-th `+=` of worker w's merge: dW1[i][j] += localDW[i][j] for every
\*           i, j, then db1[j] += localDB[j] for every j
W1Op(w, p) ==
    IF variant = "shared"
    THEN LET perRow == latentSize * (1 + inputSize)
             i == W1Start(w) + p \div perRow
             j == (p % perRow) \div (1 + inputSize)
             q == (p % perRow) % (1 + inputSize)
         IN  IF ~InRange(ts.dA1, i, j) \/ (q > 0 /\ ~InRange(ts.x, i, q - 1))
             THEN [panics |-> TRUE]
             ELSE IF q = 0
             THEN [panics |-> FALSE, cell |-> <<"db1", 0, j>>, add |-> ts.dA1[i][j]]
             ELSE [panics |-> FALSE, cell |-> <<"dW1", q - 1, j>>,
                   add |-> Mul(ts.x[i][q - 1], ts.dA1[i][j])]
    ELSE IF \E i \in W1Start(w)..(W1End(w) - 1) :
                \E j \in 0..(latentSize - 1), k \in 0..(inputSize - 1) :
                    ~InRange(ts.dA1, i, j) \/ ~InRange(ts.x, i, k)
         THEN [panics |-> TRUE]
         ELSE IF p < inputSize * latentSize
         THEN [panics |-> FALSE, cell |-> <<"dW1", p \div latentSize, p % latentSize>>,
               add |-> localDW(w, p \div latentSize, p % latentSize)]
         ELSE [panics |-> FALSE, cell |-> <<"db1", 0, p - inputSize * latentSize>>,
               add |-> localDB(w, p - inputSize * latentSize)]

W1NumOps(w) ==
    IF variant = "shared"
    THEN (W1End(w) - W1Start(w)) * latentSize * (1 + inputSize)
    ELSE inputSize * latentSize + latentSize

W1Dispatch ==
    /\ pc = "computeGradientsW1"
    /\ ts' = [ts EXCEPT !.dW1 = MakeMat(inputSize, latentSize), !.db1 = MakeVec(latentSize)]
    /\ wk' = [w \in 0..(numWorkers - 1) |-> Goroutine(W1NumOps(w))]
    /\ writers' = <<>>
    /\ pc' = "waitW1"
    /\ UNCHANGED <<env, model, file, ret, steps, models, pre, saved>>

W1Load == \E w \in DOMAIN wk : pc = "waitW1" /\ GradLoad(w, W1Op(w, wk[w].p))

W1Store == \E w \in DOMAIN wk : pc = "waitW1" /\ GradStore(w, W1Op(w, wk[w].p))

\* wg.Wait(); return dW1, db1
W1Return ==
    /\ pc = "waitW1"
    /\ WaitReturns
    /\ pc' = "updateWeights"
    /\ wk' = <<>>
    /\ UNCHANGED <<env, model, file, ts, ret, steps, models, hist>>

\* ------------------------------------------------------ updateWeights
\* one goroutine per row of W1, one for b1, one per row of W2, one for b2
Updaters ==
    {<<"W1", i>> : i \in 0..(inputSize - 1)} \cup {<<"b1", 0>>}
        \cup {<<"W2", i>> : i \in 0..(latentSize - 1)} \cup {<<"b2", 0>>}

UpdNumOps(g) == IF g[1] \in {"W1", "b1"} THEN latentSize ELSE inputSize

\* mutant: every goroutine of a row loop captures the loop variable at its first value
UpdOpCaptured(g, p) ==
    CASE g[1] = "W1" -> [cell |-> <<"W1", 0, p>>, grad |-> ts.dW1[0][p]]
      [] g[1] = "b1" -> [cell |-> <<"b1", 0, p>>, grad |-> ts.db1[p]]
      [] g[1] = "W2" -> [cell |-> <<"W2", 0, p>>, grad |-> ts.dW2[0][p]]
      [] g[1] = "b2" -> [cell |-> <<"b2", 0, p>>, grad |-> ts.db2[p]]

\* the p-th `-=` of goroutine g: the cell and its gradient
UpdOp(g, p) ==
    CASE g[1] = "W1" -> [cell |-> <<"W1", g[2], p>>, grad |-> ts.dW1[g[2]][p]]
      [] g[1] = "b1" -> [cell |-> <<"b1", 0, p>>, grad |-> ts.db1[p]]
      [] g[1] = "W2" -> [cell |-> <<"W2", g[2], p>>, grad |-> ts.dW2[g[2]][p]]
      [] g[1] = "b2" -> [cell |-> <<"b2", 0, p>>, grad |-> ts.db2[p]]

\* the parameter slices are indexed by inputSize and latentSize, whatever their length
UpdPanics(c) ==
    CASE c[1] = "W1" -> ~InRange(W1, c[2], c[3])
      [] c[1] = "b1" -> c[3] \notin DOMAIN b1
      [] c[1] = "W2" -> ~InRange(W2, c[2], c[3])
      [] c[1] = "b2" -> c[3] \notin DOMAIN b2

ParamGet(c) ==
    CASE c[1] = "W1" -> W1[c[2]][c[3]]
      [] c[1] = "b1" -> b1[c[3]]
      [] c[1] = "W2" -> W2[c[2]][c[3]]
      [] c[1] = "b2" -> b2[c[3]]

\* param -= lr * grad
Descend(param, lr, grad) == param - Mul(lr, grad)

UpdDispatch ==
    /\ pc = "updateWeights"
    /\ wk' = [g \in Updaters |-> Goroutine(UpdNumOps(g))]
    /\ writers' = <<>>
    /\ pre' = [W1 |-> W1, b1 |-> b1, W2 |-> W2, b2 |-> b2]
    /\ pc' = "waitUpdate"
    /\ UNCHANGED <<env, model, file, ts, ret, steps, models, saved>>

\* goroutine g runs its next `param -= lr * grad`.  No other goroutine is handed
\* the cell, so the load and the store are one step; writers records every
\* goroutine that stores to a cell
UpdStore ==
    \E g \in DOMAIN wk :
        LET op == UpdOp(g, wk[g].p)
            c == op.cell
            v == Descend(ParamGet(c), ts.lr, op.grad)
        IN  /\ pc = "waitUpdate"
            /\ ~Done(g)
            /\ IF UpdPanics(c)
               THEN /\ pc' = "panic"
                    /\ UNCHANGED <<params, wk, writers>>
               ELSE /\ pc' = pc
                    /\ W1' = IF c[1] = "W1" THEN [W1 EXCEPT ![c[2]][c[3]] = v] ELSE W1
                    /\ b1' = IF c[1] = "b1" THEN [b1 EXCEPT ![c[3]] = v] ELSE b1
                    /\ W2' = IF c[1] = "W2" THEN [W2 EXCEPT ![c[2]][c[3]] = v] ELSE W2
                    /\ b2' = IF c[1] = "b2" THEN [b2 EXCEPT ![c[3]] = v] ELSE b2
                    /\ wk' = [wk EXCEPT ![g].p = @ + 1]
                    /\ writers' = Wrote(c, g)
            /\ UNCHANGED <<env, inputSize, latentSize, file, ts, ret, steps, models,
                           pre, saved>>

\* wg.Wait(): updateWeights returns
UpdReturn ==
    /\ pc = "waitUpdate"
    /\ WaitReturns
    /\ pc' = "return"
    /\ wk' = <<>>
    /\ UNCHANGED <<env, model, file, ts, ret, steps, models, hist>>

\* return mse
TSReturn ==
    /\ pc = "return"
    /\ pc' = "called"
    /\ ret' = [op |-> "TrainStep", arg |-> ts.x, panic |-> FALSE, val |-> ts.mse]
    /\ ts' = NoStep
    /\ UNCHANGED <<env, model, file, wk, steps, models, hist>>

\* ------------------------------------------------------- Save and Load
\* encoding/gob transmits the exported fields of the struct only: W1 and W2.
\* inputSize, latentSize, b1 and b2 are unexported and are not in the stream.
\* good is the number of fields of the stream a decoder reads before it meets
\* damaged bytes (2: the stream is intact)
GobEncode == [exists |-> TRUE, W1 |-> W1, W2 |-> W2, good |-> 2]

\* os.Create fails, or the file is written
Save ==
    /\ pc = "idle"
    /\ \E created \in BOOLEAN :
        /\ ret' = [op |-> "Save", err |-> ~created]
        /\ file' = IF created THEN GobEncode ELSE file
        /\ saved' = IF created
                    THEN [inputSize |-> inputSize, latentSize |-> latentSize,
                          W1 |-> W1, b1 |-> b1, W2 |-> W2, b2 |-> b2]
                    ELSE saved
    /\ pc' = "called"
    /\ UNCHANGED <<env, model, ts, wk, steps, models, writers, pre>>

\* the file is damaged on disk between a Save and a Load
Corrupt ==
    /\ pc = "idle"
    /\ file.exists
    /\ file.good = 2
    /\ \E g \in 0..1 : file' = [file EXCEPT !.good = g]
    /\ UNCHANGED <<env, model, pc, ts, wk, ret, steps, models, hist>>

\* os.Open fails and Load returns before it decodes; or decoder.Decode(ae) stores
\* each field it reads into ae as it reads it, and returns an error at the
\* first field it cannot read
Load ==
    /\ pc = "idle"
    /\ IF ~file.exists
       THEN /\ ret' = [op |-> "Load", err |-> TRUE, opened |-> FALSE]
            /\ UNCHANGED <<W1, W2>>
       ELSE /\ ret' = [op |-> "Load", err |-> file.good < 2, opened |-> TRUE]
            /\ W1' = IF file.good >= 1 THEN file.W1 ELSE W1
            /\ W2' = IF file.good >= 2 THEN file.W2 ELSE W2
    /\ pc' = "called"
    /\ UNCHANGED <<env, inputSize, latentSize, b1, b2, file, ts, wk, steps, models, hist>>

\* ------------------------------------------------------ specifications
\* one TrainStep, through all its phases and goroutines
TrainNext ==
    \/ TrainStep
    \/ TSForward
    \/ TSOutputGradient
    \/ W2Dispatch
    \/ W2Load
    \/ W2Store
    \/ W2Return
    \/ W2Sequential
    \/ BPDispatch
    \/ BPWorker
    \/ BPReturn
    \/ W1Dispatch
    \/ W1Load
    \/ W1Store
    \/ W1Return
    \/ UpdDispatch
    \/ UpdStore
    \/ UpdReturn
    \/ TSReturn
    \/ Resume

\* training
SpecTrain == Init /\ [][TrainNext]_vars

\* training and inference
InferNext == TrainNext \/ ForwardCall \/ EncodeCall \/ DecodeCall

SpecInfer == Init /\ [][InferNext]_vars

\* training and persistence, on a machine with one CPU
PersistNext == TrainNext \/ NewAutoencoder \/ Save \/ Corrupt \/ Load

InitOneCPU == Init /\ numWorkers = 1

SpecPersist == InitOneCPU /\ [][PersistNext]_vars

\* the whole package
Next == InferNext \/ NewAutoencoder \/ Save \/ Corrupt \/ Load

Spec == Init /\ [][Next]_vars

\* --------------------------------------------------------- properties
\* what a pool of one worker computes: worker 0 is handed every row and adds the
\* rows' terms in order
OneWorkerDB2 ==
    [j \in 0..(inputSize - 1) |-> SumTo([i \in DOMAIN ts.a1 |-> ts.dOut[i][j]], len(ts.a1))]

OneWorkerDW2 ==
    [k \in 0..(latentSize - 1) |-> [j \in 0..(inputSize - 1) |->
        SumTo([i \in DOMAIN ts.a1 |-> Mul(ts.a1[i][k], ts.dOut[i][j])], len(ts.a1))]]

OneWorkerDB1 ==
    [j \in 0..(latentSize - 1) |-> SumTo([i \in DOMAIN ts.x |-> ts.dA1[i][j]], len(ts.x))]

OneWorkerDW1 ==
    [k \in 0..(inputSize - 1) |-> [j \in 0..(latentSize - 1) |->
        SumTo([i \in DOMAIN ts.x |-> Mul(ts.x[i][k], ts.dA1[i][j])], len(ts.x))]]

\* C1: when computeGradientsW2 and computeGradientsW1 have returned, dW2, db2, dW1
\* and db1 are what a pool of one worker computes from the same arguments,
\* whatever the number of workers and their interleaving
C1_GradientsAsOneWorker ==
    /\ pc \in {"backpropHidden", "waitBP", "computeGradientsW1", "waitW1", "updateWeights"}
        => ts.dW2 = OneWorkerDW2 /\ ts.db2 = OneWorkerDB2
    /\ pc = "updateWeights" => ts.dW1 = OneWorkerDW1 /\ ts.db1 = OneWorkerDB1

GradientCells == {"dW1", "db1", "dW2", "db2"}

\* C2: no cell of dW1, db1, dW2, db2 is written by two different workers
C2_OneWriterPerGradientCell ==
    \A c \in DOMAIN writers : c[1] \in GradientCells => Cardinality(writers[c]) <= 1

\* C3: computeGradientsW2, backpropHidden and computeGradientsW1 return only when
\* every goroutine they started has done all its stores
C3_ReturnAfterAllWorkers ==
    [][(pc \in {"waitW2", "waitBP", "waitW1"} /\ pc' \notin {pc, "panic"})
          => \A g \in DOMAIN wk : wk[g].p = wk[g].n /\ ~wk[g].loaded]_vars

\* C3 witness: the three phases have returned on a machine with several CPUs
C3_Witness == pc = "updateWeights" /\ numWorkers > 1 /\ len(ts.x) > 1

\* the batch has a sample whose length is not inputSize
Malformed(x) == \E i \in DOMAIN x : len(x[i]) # inputSize

\* a Load has just returned
Loaded == pc = "called" /\ ret.op = "Load"

\* C4: a Load that succeeds on a model of the sizes of the model that was saved
\* leaves W1, b1, W2 and b2 as they were at the Save
C4_SaveLoadRoundTrip ==
    (Loaded /\ ~ret.err /\ saved.inputSize = inputSize /\ saved.latentSize = latentSize)
        => W1 = saved.W1 /\ b1 = saved.b1 /\ W2 = saved.W2 /\ b2 = saved.b2

\* the stored tensors have the sizes of the model
FileFits ==
    /\ len(file.W1) = inputSize
    /\ \A i \in DOMAIN file.W1 : len(file.W1[i]) = latentSize
    /\ len(file.W2) = latentSize
    /\ \A i \in DOMAIN file.W2 : len(file.W2[i]) = inputSize

\* C5: a Load of tensors whose sizes are not those of the model returns an error
C5_LoadRejectsOtherShape ==
    (Loaded /\ ret.opened /\ ~FileFits) => ret.err

\* C6: a Load that returns an error leaves W1, b1, W2 and b2 as they were
C6_FailedLoadChangesNothing ==
    [][(pc = "idle" /\ pc' = "called" /\ ret'.op = "Load" /\ ret'.err)
          => UNCHANGED params]_vars

\* C7: Forward with a sample whose length is not inputSize fails: it returns no
\* reconstruction
C7_ForwardRejectsOtherLength ==
    (pc \in {"called", "panic"} /\ ret.op = "Forward" /\ Malformed(ret.arg)) => ret.panic

\* C8: Encode returns the A1 that Forward computes for the same batch
C8_EncodeIsForwardA1 ==
    (pc = "called" /\ ret.op = "Encode" /\ ~Malformed(ret.arg))
        => ret.val = Forward(ret.arg).a1

\* C9: Decode of the A1 that Forward computes for a batch returns the Out that
\* Forward computes for it
C9_DecodeIsForwardOut ==
    (pc = "called" /\ ret.op = "Decode")
        => \A x \in Batches(inputSize) :
              (~Malformed(x) /\ Forward(x).a1 = ret.arg) => ret.val = Forward(x).out

ParamCells ==
    {<<"W1", i, j>> : i \in 0..(inputSize - 1), j \in 0..(latentSize - 1)}
        \cup {<<"b1", 0, j>> : j \in 0..(latentSize - 1)}
        \cup {<<"W2", i, j>> : i \in 0..(latentSize - 1), j \in 0..(inputSize - 1)}
        \cup {<<"b2", 0, j>> : j \in 0..(inputSize - 1)}

\* C10: while updateWeights runs no cell is stored to by two goroutines, and when it
\* has returned every cell of W1, b1, W2 and b2 has been stored to by one goroutine
\* and holds its value at the call minus lr times its gradient
C10_OneDescentPerCell ==
    /\ pc \in {"waitUpdate", "return"}
        => \A c \in DOMAIN writers : Cardinality(writers[c]) = 1
    /\ pc = "return"
        => /\ DOMAIN writers = ParamCells
           /\ \A i \in 0..(inputSize - 1), j \in 0..(latentSize - 1) :
                /\ W1[i][j] = pre.W1[i][j] - Mul(ts.lr, ts.dW1[i][j])
                /\ W2[j][i] = pre.W2[j][i] - Mul(ts.lr, ts.dW2[j][i])
           /\ \A j \in 0..(latentSize - 1) : b1[j] = pre.b1[j] - Mul(ts.lr, ts.db1[j])
           /\ \A j \in 0..(inputSize - 1) : b2[j] = pre.b2[j] - Mul(ts.lr, ts.db2[j])

\* C10 witness: updateWeights has returned on a model with several rows, and has
\* moved weights and biases
C10_Witness ==
    /\ pc = "return"
    /\ inputSize > 1
    /\ W1 # pre.W1 /\ b1 # pre.b1 /\ W2 # pre.W2 /\ b2 # pre.b2

\* where TrainStep is before it calls updateWeights, and after updateWeights returned
OutsideUpdate ==
    {"Forward", "computeOutputGradient", "computeGradientsW2", "waitW2", "backpropHidden",
     "waitBP", "computeGradientsW1", "waitW1", "return"}

\* C11: a call of Forward, Encode or Decode, and every step of TrainStep outside
\* updateWeights, leaves W1, b1, W2 and b2 as they were
C11_OnlyUpdateWeightsWrites ==
    [][(\/ pc = "idle" /\ ret'.op \in {"Forward", "Encode", "Decode"}
        \/ pc \in OutsideUpdate)
          => UNCHANGED params]_vars

\* C11 witness: Decode has returned on a model that a TrainStep, with its gradient
\* phases, has trained
C11_Witness ==
    /\ pc = "called" /\ ret.op = "Decode"
    /\ steps > 0 /\ b1 # MakeVec(latentSize) /\ b2 # MakeVec(inputSize)

\* the tensors have the sizes the model declares
Shaped ==
    /\ len(W1) = inputSize /\ \A i \in DOMAIN W1 : len(W1[i]) = latentSize
    /\ len(b1) = latentSize
    /\ len(W2) = latentSize /\ \A i \in DOMAIN W2 : len(W2[i]) = inputSize
    /\ len(b2) = inputSize

\* C12: no operation on a model changes inputSize or latentSize (only NewAutoencoder,
\* which builds another model, sets them), and after every operation W1 is
\* inputSize x latentSize, b1 has latentSize elements, W2 is latentSize x inputSize
\* and b2 has inputSize elements
C12_DimensionsFixed ==
    [][/\ models' = models => UNCHANGED <<inputSize, latentSize>>
       /\ Shaped']_vars

\* m has r rows of c columns
IsShape(m, r, c) == len(m) = r /\ \A i \in DOMAIN m : len(m[i]) = c

\* C13: for a batch of B >= 1 samples of length inputSize, Forward returns Out of
\* B x inputSize and A1 of B x latentSize, and Decode of what Encode returns for the
\* batch has the rows and columns of the batch
C13_ShapesOfResults ==
    /\ (pc = "called" /\ ret.op = "Forward" /\ ~Malformed(ret.arg))
        => /\ IsShape(ret.val.out, len(ret.arg), inputSize)
           /\ IsShape(ret.val.a1, len(ret.arg), latentSize)
    /\ (pc = "called" /\ ret.op = "Decode")
        => \A x \in Batches(inputSize) :
              (~Malformed(x) /\ ret.arg = Encode(x))
                  => IsShape(ret.val, len(x), inputSize)

\* C13 witness: Decode has returned for the code Encode gives a batch of two samples
\* of two features
C13_Witness ==
    /\ pc = "called" /\ ret.op = "Decode" /\ inputSize = 2
    /\ \E x \in Batches(inputSize) : ~Malformed(x) /\ len(x) = 2 /\ ret.arg = Encode(x)

\* C14: when backpropHidden has returned, dA1 has a row for every sample of the batch
\* and every row i holds, in every latent column j,
\* SigmoidDeriv(z1[i][j]) * sum over k of dOut[i][k] * W2[j][k]
C14_BackpropCoversEveryRow ==
    pc = "computeGradientsW1"
        => /\ len(ts.dA1) = len(ts.x)
           /\ \A i \in 0..(len(ts.x) - 1) : ts.dA1[i] = BackpropRow(i)

\* C15: a TrainStep on a batch of samples of length inputSize does not fault, whatever
\* the number of workers: no goroutine indexes a row the batch does not have
C15_TrainStepDoesNotFault ==
    (pc = "panic" /\ ts # NoStep) => Malformed(ts.x)

\* the range [start, end) of worker w in computeGradientsW2 (f = "W2") and in
\* computeGradientsW1 (f = "W1")
RangeStart(f, w) == IF f = "W2" THEN W2Start(w) ELSE W1Start(w)

RangeEnd(f, w) == IF f = "W2" THEN W2End(w) ELSE W1End(w)

\* the rows start <= i < end handed to worker w
RowsOf(f, w) == {i \in 0..(len(ts.x) - 1) : RangeStart(f, w) <= i /\ i < RangeEnd(f, w)}

\* the workers' ranges are in order, do not overlap and hold every row of the batch
RangesPartition(f) ==
    /\ \A i \in 0..(len(ts.x) - 1) :
          Cardinality({w \in DOMAIN wk : i \in RowsOf(f, w)}) = 1
    /\ \A w, v \in DOMAIN wk :
          w < v => \A i \in RowsOf(f, w), j \in RowsOf(f, v) : i < j

\* C16: in computeGradientsW2 and computeGradientsW1 the ranges [start, end) of the
\* workers are in order, do not overlap and hold every row 0..B-1 once, and no more
\* than B workers are started
C16_RangesPartitionCappedWorkers ==
    /\ pc = "waitW2"
        => RangesPartition("W2") /\ Cardinality(DOMAIN wk) <= len(ts.x)
    /\ pc = "waitW1"
        => RangesPartition("W1") /\ Cardinality(DOMAIN wk) <= len(ts.x)

\* C17: in the variant with localDW and localDB, when computeGradientsW1 has returned
\* dW1 and db1 are the sums of the workers' local accumulators, whatever the
\* interleaving of the workers
C17_MergeIsSumOfLocals ==
    (variant = "local" /\ pc = "updateWeights")
        => /\ \A k \in 0..(inputSize - 1), j \in 0..(latentSize - 1) :
                ts.dW1[k][j] = SumTo([w \in 0..(numWorkers - 1) |-> localDW(w, k, j)],
                                     numWorkers)
           /\ \A j \in 0..(latentSize - 1) :
                ts.db1[j] = SumTo([w \in 0..(numWorkers - 1) |-> localDB(w, j)], numWorkers)

\* the statements of TrainStep, in the order the main goroutine reaches them
PhaseOrder ==
    {<<"idle", "Forward">>, <<"Forward", "computeOutputGradient">>,
     <<"computeOutputGradient", "computeGradientsW2">>,
     <<"computeGradientsW2", "waitW2">>, <<"waitW2", "backpropHidden">>,
     <<"computeGradientsW2", "backpropHidden">>,
     <<"backpropHidden", "waitBP">>, <<"waitBP", "computeGradientsW1">>,
     <<"computeGradientsW1", "waitW1">>, <<"waitW1", "updateWeights">>,
     <<"updateWeights", "waitUpdate">>, <<"waitUpdate", "return">>,
     <<"return", "called">>, <<"called", "idle">>}

\* C18: TrainStep goes through forward, output gradient, decoder gradients, hidden
\* backprop, encoder gradients and the optimizer in that order; an element of W1, b1,
\* W2 or b2 is written only inside updateWeights, when the four gradient functions
\* have returned and only the goroutines of updateWeights run; so backpropHidden
\* reads the W2 of before the update, and a step that faults leaves the parameters
\* as they were
C18_PhasesInOrder ==
    [][/\ (pc' # pc /\ pc' # "panic") => <<pc, pc'>> \in PhaseOrder
       /\ params' # params => pc = "waitUpdate" /\ DOMAIN wk = Updaters
       /\ pc' = "panic" => UNCHANGED params]_vars

\* C18 witness: a TrainStep on a machine with several CPUs has gone through all its
\* phases, moved the decoder's weights and returned its loss
C18_Witness ==
    /\ pc = "called" /\ ret.op = "TrainStep"
    /\ numWorkers > 1 /\ W2 # pre.W2

=============================================================================
